---- MODULE Spec2Model ----
(***************************************************************************)
(* Model of the MTG comprehensive-rules parser (RulesParser.ts).           *)
(*                                                                         *)
(* A JavaScript string is modelled as a sequence of one-character strings, *)
(* so that trim, the four line regexes, endsWith and includes are computed *)
(* character by character.  Array indices are 0-based as in the source;    *)
(* element i of a JavaScript array a is a[i + 1] here, and reading a       *)
(* property of an element that does not exist throws a TypeError.          *)
(***************************************************************************)
EXTENDS Integers, Sequences, FiniteSets, TLC

VARIABLES
    lines,                \* parseRules: the lines forEach has visited so far
    rulesArr,             \* parseRules: the result array
    lastCategoryIndex,    \* parseRules: cursor
    lastSubcategoryIndex, \* parseRules: cursor
    lastRuleIndex,        \* parseRules: cursor
    status,               \* parseRules: "running", "threw" or "returned"
    gLines,               \* parseGlossary: the lines forEach has visited so far
    termsArr,             \* parseGlossary: the result array
    lastTermIndex,        \* parseGlossary: cursor
    gStatus,              \* parseGlossary: "running", "threw" or "returned"
    pc,                   \* getRulesObject: the statement about to run
    rulesText,            \* getRulesObject: what getRulesText resolved to
    rules,                \* getRulesObject: the call of getRules
    glossary,             \* getRulesObject: the call of getGlossary
    effectiveDate,        \* getRulesObject: what getEffectiveDate returned
    result,               \* getRulesObject: how the call ended
    request,              \* fetch: the request and the definition serving it
    response,             \* fetch: what the handler resolved to
    xpc,                  \* the three extractions run apart: where each stands
    linesOfGetRules,      \* getRules: its local array "lines"
    linesOfGetGlossary    \* getGlossary: its local array "lines"

rulesVars == <<lines, rulesArr, lastCategoryIndex, lastSubcategoryIndex, lastRuleIndex, status>>
glossaryVars == <<gLines, termsArr, lastTermIndex, gStatus>>
docVars == <<pc, rulesText, rules, glossary, effectiveDate, result>>
fetchVars == <<request, response>>
extractVars == <<xpc, linesOfGetRules, linesOfGetGlossary>>
vars == <<rulesVars, glossaryVars, docVars, fetchVars, extractVars>>

(***************************************************************************)
(* Bounds of the model.                                                    *)
(***************************************************************************)
MaxLines == 5
MaxGlossaryLines == 5
MaxDocLines == 4

(***************************************************************************)
(* Characters and string helpers.                                          *)
(***************************************************************************)
Digit == {"0", "1", "2", "3", "4", "5", "6", "7", "8", "9"}
Upper == {"A", "B", "C", "D", "E", "F", "G", "H", "I", "J", "K", "L", "M",
          "N", "O", "P", "Q", "R", "S", "T", "U", "V", "W", "X", "Y", "Z"}
Lower == {"a", "b", "c", "d", "e", "f", "g", "h", "i", "j", "k", "l", "m",
          "n", "o", "p", "q", "r", "s", "t", "u", "v", "w", "x", "y", "z"}
WhiteSpace == {" ", "\n", "\t"}
LineTerminator == {"\n"}

Drop(s, n) == SubSeq(s, n + 1, Len(s))

RECURSIVE TrimStart(_)
TrimStart(s) ==
    IF s # <<>> /\ Head(s) \in WhiteSpace THEN TrimStart(Tail(s)) ELSE s

RECURSIVE TrimEnd(_)
TrimEnd(s) ==
    IF s # <<>> /\ s[Len(s)] \in WhiteSpace
    THEN TrimEnd(SubSeq(s, 1, Len(s) - 1)) ELSE s

\* String.prototype.trim
Trim(s) == TrimEnd(TrimStart(s))

\* length of the longest prefix of s made of digits: what \d+ consumes
RECURSIVE DigitRun(_)
DigitRun(s) ==
    IF s # <<>> /\ Head(s) \in Digit THEN 1 + DigitRun(Tail(s)) ELSE 0

\* (.+)$ : at least one character, none of them a line terminator
DotPlus(s) == s # <<>> /\ \A i \in 1..Len(s) : s[i] \notin LineTerminator

\* the first word of s (up to the next space) and what follows it
RECURSIVE WordLen(_)
WordLen(s) == IF s = <<>> \/ Head(s) = " " THEN 0 ELSE 1 + WordLen(Tail(s))

\* [A-Z][a-z,]+|of|a|and
CategoryWord(w) ==
    \/ Len(w) >= 2 /\ w[1] \in Upper
                   /\ \A i \in 2..Len(w) : w[i] \in Lower \cup {","}
    \/ w = <<"o", "f">>
    \/ w = <<"a">>
    \/ w = <<"a", "n", "d">>

\* [A-Z][a-z]+|of|a
SubcategoryWord(w) ==
    \/ Len(w) >= 2 /\ w[1] \in Upper /\ \A i \in 2..Len(w) : w[i] \in Lower
    \/ w = <<"o", "f">>
    \/ w = <<"a">>

\* ((?: (?:word))+)$ : one or more words, each preceded by one space
RECURSIVE Words(_, _)
Words(s, category) ==
    /\ s # <<>>
    /\ Head(s) = " "
    /\ LET n == WordLen(Tail(s))
           w == SubSeq(Tail(s), 1, n)
           rest == Drop(Tail(s), n)
       IN  /\ IF category THEN CategoryWord(w) ELSE SubcategoryWord(w)
           /\ rest = <<>> \/ Words(rest, category)

(***************************************************************************)
(* The four line patterns of parseRules.  A match is a record: ok, and the *)
(* two capture groups id (group 1) and text (group 2).                     *)
(***************************************************************************)
NoMatch == [ok |-> FALSE, id |-> <<>>, text |-> <<>>]

\* /^(\d)\.((?: (?:[A-Z][a-z,]+|of|a|and))+)$/
categoryMatch(t) ==
    IF /\ Len(t) >= 2
       /\ t[1] \in Digit
       /\ t[2] = "."
       /\ Words(Drop(t, 2), TRUE)
    THEN [ok |-> TRUE, id |-> SubSeq(t, 1, 1), text |-> Drop(t, 2)]
    ELSE NoMatch

\* /^(\d\d+)\.((?: (?:[A-Z][a-z]+|of|a))+)$/
subcategoryMatch(t) ==
    LET k == DigitRun(t) IN
    IF /\ k >= 2
       /\ Len(t) >= k + 1
       /\ t[k + 1] = "."
       /\ Words(Drop(t, k + 1), FALSE)
    THEN [ok |-> TRUE, id |-> SubSeq(t, 1, k), text |-> Drop(t, k + 1)]
    ELSE NoMatch

\* mutant of ruleMatch: /^(\d\d+\.\d+)\. (.+)$/, any number of digits after
\* the dot
ruleMatchManyDigits(t) ==
    LET k == DigitRun(t)
        j == IF Len(t) >= k + 1 THEN DigitRun(Drop(t, k + 1)) ELSE 0
    IN
    IF /\ k >= 2
       /\ Len(t) >= k + 1
       /\ t[k + 1] = "."
       /\ j >= 1
       /\ Len(t) >= k + j + 3
       /\ t[k + j + 2] = "."
       /\ t[k + j + 3] = " "
       /\ DotPlus(Drop(t, k + j + 3))
    THEN [ok |-> TRUE, id |-> SubSeq(t, 1, k + j + 1), text |-> Drop(t, k + j + 3)]
    ELSE NoMatch

\* /^(\d\d+\.\d)\. (.+)$/
ruleMatch(t) ==
    LET k == DigitRun(t) IN
    IF /\ k >= 2
       /\ Len(t) >= k + 4
       /\ t[k + 1] = "."
       /\ t[k + 2] \in Digit
       /\ t[k + 3] = "."
       /\ t[k + 4] = " "
       /\ DotPlus(Drop(t, k + 4))
    THEN [ok |-> TRUE, id |-> SubSeq(t, 1, k + 2), text |-> Drop(t, k + 4)]
    ELSE NoMatch

\* /^(\d\d+\.\d[a-z]) (.+)$/
subruleMatch(t) ==
    LET k == DigitRun(t) IN
    IF /\ k >= 2
       /\ Len(t) >= k + 4
       /\ t[k + 1] = "."
       /\ t[k + 2] \in Digit
       /\ t[k + 3] \in Lower
       /\ t[k + 4] = " "
       /\ DotPlus(Drop(t, k + 4))
    THEN [ok |-> TRUE, id |-> SubSeq(t, 1, k + 3), text |-> Drop(t, k + 4)]
    ELSE NoMatch

(***************************************************************************)
(* JavaScript array helpers, 0-based.                                      *)
(***************************************************************************)
\* a[i] is an element of a (not undefined)
Has(a, i) == 0 <= i /\ i < Len(a)

\* a.map(({ id }) => id).indexOf(id): the first position holding id, or -1
IndexOfId(a, id) ==
    IF \E i \in 1..Len(a) : a[i].id = id
    THEN (CHOOSE i \in 1..Len(a) :
              /\ a[i].id = id
              /\ \A j \in 1..(i - 1) : a[j].id # id) - 1
    ELSE -1

\* mutant of SomeId: only the last element is compared
SomeIdLastOnly(a, id) == a # <<>> /\ a[Len(a)].id = id

\* a.some(x => x.id === id)
SomeId(a, id) == \E i \in 1..Len(a) : a[i].id = id

(***************************************************************************)
(* parseRules: the state of one pass and the forEach callback.             *)
(***************************************************************************)
ParseRulesStart ==
    [rulesArr |-> <<>>,
     lastCategoryIndex |-> 0,
     lastSubcategoryIndex |-> 0,
     lastRuleIndex |-> 0,
     threw |-> FALSE]

Throw(st) == [st EXCEPT !.threw = TRUE]

\* mutant of CategoryBranch: the cursor is taken to be the last element
CategoryBranchLastElement(st, m) ==
    LET arr == IF ~SomeId(st.rulesArr, m.id)
               THEN Append(st.rulesArr,
                           [id |-> m.id, title |-> Trim(m.text), subcategories |-> <<>>])
               ELSE st.rulesArr
    IN  [st EXCEPT !.rulesArr = arr, !.lastCategoryIndex = Len(arr) - 1]

\* mutant of CategoryBranch: a repeated Category line updates the title
CategoryBranchUpsert(st, m) ==
    LET id == m.id
        category == [id |-> id, title |-> Trim(m.text), subcategories |-> <<>>]
        i == IndexOfId(st.rulesArr, id)
        arr == IF i < 0 THEN Append(st.rulesArr, category)
               ELSE [st.rulesArr EXCEPT ![i + 1].title = category.title]
    IN  [st EXCEPT !.rulesArr = arr,
                   !.lastCategoryIndex = IndexOfId(arr, id)]

\* if (categoryMatch) { ... }
CategoryBranch(st, m) ==
    LET id == m.id
        category == [id |-> id, title |-> Trim(m.text), subcategories |-> <<>>]
        categoryExists == SomeId(st.rulesArr, id)
        arr == IF ~categoryExists THEN Append(st.rulesArr, category)
                                  ELSE st.rulesArr
    IN  [st EXCEPT !.rulesArr = arr,
                   !.lastCategoryIndex = IndexOfId(arr, id)]

\* else if (subcategoryMatch) { ... }
SubcategoryBranch(st, m) ==
    LET id == m.id
        subcategory == [id |-> id, title |-> Trim(m.text), rules |-> <<>>]
        c == st.lastCategoryIndex
    IN  IF ~Has(st.rulesArr, c) THEN Throw(st)
        ELSE LET subcategoryExists == SomeId(st.rulesArr[c + 1].subcategories, id)
                 arr == IF ~subcategoryExists
                        THEN [st.rulesArr EXCEPT
                                ![c + 1].subcategories = Append(@, subcategory)]
                        ELSE st.rulesArr
             IN  [st EXCEPT !.rulesArr = arr,
                            !.lastSubcategoryIndex =
                                IndexOfId(arr[c + 1].subcategories, id)]

\* mutant of RuleBranch: the new Rule is put at the front of the list
RuleBranchUnshift(st, m) ==
    LET c == st.lastCategoryIndex
        s == st.lastSubcategoryIndex
    IN  IF ~Has(st.rulesArr, c) THEN Throw(st)
        ELSE IF ~Has(st.rulesArr[c + 1].subcategories, s) THEN Throw(st)
        ELSE LET arr == [st.rulesArr EXCEPT
                           ![c + 1].subcategories[s + 1].rules =
                               <<[id |-> m.id, rule |-> m.text,
                                  subrules |-> <<>>]>> \o @]
             IN  [st EXCEPT !.rulesArr = arr,
                            !.lastRuleIndex =
                                IndexOfId(arr[c + 1].subcategories[s + 1].rules, m.id)]

\* mutant of RuleBranch: a Rule whose id exists already is not pushed again
RuleBranchDedup(st, m) ==
    LET c == st.lastCategoryIndex
        s == st.lastSubcategoryIndex
    IN  IF ~Has(st.rulesArr, c) THEN Throw(st)
        ELSE IF ~Has(st.rulesArr[c + 1].subcategories, s) THEN Throw(st)
        ELSE LET old == st.rulesArr[c + 1].subcategories[s + 1].rules
                 arr == IF SomeId(old, m.id) THEN st.rulesArr
                        ELSE [st.rulesArr EXCEPT
                                ![c + 1].subcategories[s + 1].rules =
                                    Append(@, [id |-> m.id, rule |-> m.text,
                                               subrules |-> <<>>])]
             IN  [st EXCEPT !.rulesArr = arr,
                            !.lastRuleIndex =
                                IndexOfId(arr[c + 1].subcategories[s + 1].rules, m.id)]

\* else if (ruleMatch) { ... }
RuleBranch(st, m) ==
    LET c == st.lastCategoryIndex
        s == st.lastSubcategoryIndex
    IN  IF ~Has(st.rulesArr, c) THEN Throw(st)
        ELSE IF ~Has(st.rulesArr[c + 1].subcategories, s) THEN Throw(st)
        ELSE LET arr == [st.rulesArr EXCEPT
                           ![c + 1].subcategories[s + 1].rules =
                               Append(@, [id |-> m.id, rule |-> m.text,
                                          subrules |-> <<>>])]
             IN  [st EXCEPT !.rulesArr = arr,
                            !.lastRuleIndex =
                                IndexOfId(arr[c + 1].subcategories[s + 1].rules, m.id)]

\* else if (subruleMatch) { ... }
SubruleBranch(st, m) ==
    LET c == st.lastCategoryIndex
        s == st.lastSubcategoryIndex
        r == st.lastRuleIndex
    IN  IF ~Has(st.rulesArr, c) THEN Throw(st)
        ELSE IF ~Has(st.rulesArr[c + 1].subcategories, s) THEN Throw(st)
        ELSE IF ~Has(st.rulesArr[c + 1].subcategories[s + 1].rules, r) THEN Throw(st)
        ELSE [st EXCEPT !.rulesArr[c + 1].subcategories[s + 1].rules[r + 1].subrules =
                            Append(@, [id |-> m.id, rule |-> m.text])]

\* which branch of the callback a line takes
LineKind(line) ==
    LET trimmed == Trim(line) IN
    IF line = <<>> THEN "blank"
    ELSE IF categoryMatch(trimmed).ok THEN "category"
    ELSE IF subcategoryMatch(trimmed).ok THEN "subcategory"
    ELSE IF ruleMatch(trimmed).ok THEN "rule"
    ELSE IF subruleMatch(trimmed).ok THEN "subrule"
    ELSE "none"

\* mutant of Callback: a non-blank line that matches no pattern is an error
CallbackStrict(st, line) ==
    LET trimmed == Trim(line)
        kind == LineKind(line)
    IN  IF kind = "category" THEN CategoryBranch(st, categoryMatch(trimmed))
        ELSE IF kind = "subcategory" THEN SubcategoryBranch(st, subcategoryMatch(trimmed))
        ELSE IF kind = "rule" THEN RuleBranch(st, ruleMatch(trimmed))
        ELSE IF kind = "subrule" THEN SubruleBranch(st, subruleMatch(trimmed))
        ELSE IF kind = "none" THEN Throw(st)
        ELSE st

\* the callback of lines.forEach
Callback(st, line) ==
    LET trimmed == Trim(line)
        kind == LineKind(line)
    IN  IF kind = "category" THEN CategoryBranch(st, categoryMatch(trimmed))
        ELSE IF kind = "subcategory" THEN SubcategoryBranch(st, subcategoryMatch(trimmed))
        ELSE IF kind = "rule" THEN RuleBranch(st, ruleMatch(trimmed))
        ELSE IF kind = "subrule" THEN SubruleBranch(st, subruleMatch(trimmed))
        ELSE st

\* parseRules(ls) as a whole: the fold of the callback, stopping at a throw
RECURSIVE ParseRulesFrom(_, _)
ParseRulesFrom(st, ls) ==
    IF ls = <<>> \/ st.threw THEN st
    ELSE ParseRulesFrom(Callback(st, Head(ls)), Tail(ls))

parseRules(ls) == ParseRulesFrom(ParseRulesStart, ls)

(***************************************************************************)
(* The lines the model feeds to parseRules.                                *)
(***************************************************************************)
LCat1   == <<"1", ".", " ", "A", "a">>                 \* "1. Aa"
LCat2   == <<"2", ".", " ", "B", "b">>                 \* "2. Bb"
LCat1x  == <<"1", ".", " ", "C", "c">>                 \* "1. Cc"
LSub10  == <<"1", "0", ".", " ", "A", "a">>            \* "10. Aa"
LSub11  == <<"1", "1", ".", " ", "B", "b">>            \* "11. Bb"
LRule   == <<"1", "0", ".", "1", ".", " ", "x">>       \* "10.1. x"
LRule2  == <<" ", "1", "0", ".", "2", ".", " ", "y">>  \* " 10.2. y"
LSubrule == <<"1", "0", ".", "1", "a", " ", "z">>      \* "10.1a z"
LBlank  == <<>>                                        \* ""
LNoise  == <<"X", "y", " ", "z">>                      \* "Xy z"
LLong   == <<"1", "0", ".", "1", "0", ".", " ", "x">>  \* "10.10. x"

LSub10x == <<"1", "0", ".", " ", "C", "c">>            \* "10. Cc"
LLongSub == <<"1", "0", ".", "1", "0", "a", " ", "z">> \* "10.10a z"

LinePool == {LCat1, LCat2, LCat1x, LSub10, LSub11, LRule, LRule2, LSubrule,
             LBlank, LNoise, LLong, LSub10x, LLongSub}

\* classification of the pool, computed once
KindOf == [l \in LinePool |-> LineKind(l)]

(***************************************************************************)
(* parseRules as a state machine: one step per forEach callback.           *)
(***************************************************************************)
Cur ==
    [rulesArr |-> rulesArr,
     lastCategoryIndex |-> lastCategoryIndex,
     lastSubcategoryIndex |-> lastSubcategoryIndex,
     lastRuleIndex |-> lastRuleIndex,
     threw |-> status = "threw"]

InitRules ==
    /\ lines = <<>>
    /\ rulesArr = ParseRulesStart.rulesArr
    /\ lastCategoryIndex = ParseRulesStart.lastCategoryIndex
    /\ lastSubcategoryIndex = ParseRulesStart.lastSubcategoryIndex
    /\ lastRuleIndex = ParseRulesStart.lastRuleIndex
    /\ status = "running"

\* lines.forEach((line) => { ... }), one line
ForEachLine(line) ==
    /\ status = "running"
    /\ Len(lines) < MaxLines
    /\ LET n == Callback(Cur, line) IN
        /\ rulesArr' = n.rulesArr
        /\ lastCategoryIndex' = n.lastCategoryIndex
        /\ lastSubcategoryIndex' = n.lastSubcategoryIndex
        /\ lastRuleIndex' = n.lastRuleIndex
        /\ status' = IF n.threw THEN "threw" ELSE "running"
    /\ lines' = Append(lines, line)
    /\ UNCHANGED <<glossaryVars, docVars, fetchVars, extractVars>>

\* return rulesArr
Return ==
    /\ status = "running"
    /\ status' = "returned"
    /\ UNCHANGED <<lines, rulesArr, lastCategoryIndex, lastSubcategoryIndex, lastRuleIndex>>
    /\ UNCHANGED <<glossaryVars, docVars, fetchVars, extractVars>>

(***************************************************************************)
(* parseGlossary.  RDQUO stands for the one character U+201D, the closing  *)
(* typographic quotation mark.                                             *)
(***************************************************************************)
RDQUO == "RDQUO"

SeeRule == <<"S", "e", "e", " ", "r", "u", "l", "e">>

\* String.prototype.endsWith, for a one-character argument
EndsWith(s, ch) == s # <<>> /\ s[Len(s)] = ch

\* String.prototype.includes
Includes(s, sub) ==
    \E i \in 0..(Len(s) - Len(sub)) : SubSeq(s, i + 1, i + Len(sub)) = sub

\* mutant of IsNewTerm: only the final period marks a continuation
IsNewTermPeriodOnly(cleanLine) == ~EndsWith(cleanLine, ".")

\* !cleanLine.endsWith(".") && !cleanLine.endsWith("”") && !cleanLine.includes("See rule")
IsNewTerm(cleanLine) ==
    /\ ~EndsWith(cleanLine, ".")
    /\ ~EndsWith(cleanLine, RDQUO)
    /\ ~Includes(cleanLine, SeeRule)

\* termsArr.findIndex(({ term }) => term === cleanLine)
FindIndexTerm(a, cleanLine) ==
    IF \E i \in 1..Len(a) : a[i].term = cleanLine
    THEN (CHOOSE i \in 1..Len(a) :
              /\ a[i].term = cleanLine
              /\ \A j \in 1..(i - 1) : a[j].term # cleanLine) - 1
    ELSE -1

ParseGlossaryStart == [termsArr |-> <<>>, lastTermIndex |-> 0, threw |-> FALSE]

\* termsArr.push({ term, meanings: [] }); lastTermIndex = termsArr.findIndex(...)
TermBranch(st, cleanLine) ==
    LET arr == Append(st.termsArr, [term |-> cleanLine, meanings |-> <<>>]) IN
    [st EXCEPT !.termsArr = arr, !.lastTermIndex = FindIndexTerm(arr, cleanLine)]

\* mutant of MeaningBranch: a line without a current term is skipped
MeaningBranchSkipping(st, cleanLine) ==
    IF ~Has(st.termsArr, st.lastTermIndex) THEN st
    ELSE [st EXCEPT !.termsArr[st.lastTermIndex + 1].meanings = Append(@, cleanLine)]

\* termsArr[lastTermIndex].meanings.push(cleanLine)
MeaningBranch(st, cleanLine) ==
    IF ~Has(st.termsArr, st.lastTermIndex) THEN Throw(st)
    ELSE [st EXCEPT !.termsArr[st.lastTermIndex + 1].meanings = Append(@, cleanLine)]

\* which branch of the callback a glossary line takes
GlossaryLineKind(line) ==
    LET cleanLine == Trim(line) IN
    IF cleanLine = <<>> THEN "blank"
    ELSE IF IsNewTerm(cleanLine) THEN "term"
    ELSE "meaning"

\* the callback of lines.forEach in parseGlossary
GlossaryCallback(st, line) ==
    LET cleanLine == Trim(line)
        kind == GlossaryLineKind(line)
    IN  IF kind = "blank" THEN st
        ELSE IF kind = "term" THEN TermBranch(st, cleanLine)
        ELSE MeaningBranch(st, cleanLine)

RECURSIVE ParseGlossaryFrom(_, _)
ParseGlossaryFrom(st, ls) ==
    IF ls = <<>> \/ st.threw THEN st
    ELSE ParseGlossaryFrom(GlossaryCallback(st, Head(ls)), Tail(ls))

parseGlossary(ls) == ParseGlossaryFrom(ParseGlossaryStart, ls)

\* the lines the model feeds to parseGlossary
GTerm    == <<"A", "b">>                                    \* "Ab"
GTermPad == <<" ", "A", "b">>                               \* " Ab"
GTerm2   == <<"C", "d">>                                    \* "Cd"
GPeriod  == <<"x", ".">>                                    \* "x."
GQuote   == <<"y", RDQUO>>                                  \* "y" + U+201D
GSee     == <<"S", "e", "e", " ", "r", "u", "l", "e", " ", "1">>  \* "See rule 1"
GSpace   == <<" ">>                                         \* " "

GlossaryPool == {GTerm, GTermPad, GTerm2, GPeriod, GQuote, GSee, GSpace}

GKindOf == [l \in GlossaryPool |-> GlossaryLineKind(l)]

GCur ==
    [termsArr |-> termsArr, lastTermIndex |-> lastTermIndex,
     threw |-> gStatus = "threw"]

InitGlossary ==
    /\ gLines = <<>>
    /\ termsArr = ParseGlossaryStart.termsArr
    /\ lastTermIndex = ParseGlossaryStart.lastTermIndex
    /\ gStatus = "running"

\* lines.forEach((line) => { ... }) of parseGlossary, one line
GlossaryForEachLine(line) ==
    /\ gStatus = "running"
    /\ Len(gLines) < MaxGlossaryLines
    /\ LET n == GlossaryCallback(GCur, line) IN
        /\ termsArr' = n.termsArr
        /\ lastTermIndex' = n.lastTermIndex
        /\ gStatus' = IF n.threw THEN "threw" ELSE "running"
    /\ gLines' = Append(gLines, line)
    /\ UNCHANGED <<rulesVars, docVars, fetchVars, extractVars>>

\* return termsArr
GlossaryReturn ==
    /\ gStatus = "running"
    /\ gStatus' = "returned"
    /\ UNCHANGED <<gLines, termsArr, lastTermIndex>>
    /\ UNCHANGED <<rulesVars, docVars, fetchVars, extractVars>>

(***************************************************************************)
(* getRules, getGlossary, getEffectiveDate and getRulesObject.  The raw    *)
(* text is a string whose lines are separated by "\r".                     *)
(***************************************************************************)
CR == "\r"

\* String.prototype.split("\r"): the pieces between consecutive separators
Split(text) ==
    LET crs == {i \in 1..Len(text) : text[i] = CR}
        n == Cardinality(crs)
        \* position of the k-th separator; 0 before the first piece and
        \* Len(text) + 1 after the last
        At(k) == IF k = 0 THEN 0
                 ELSE IF k = n + 1 THEN Len(text) + 1
                 ELSE CHOOSE i \in crs : Cardinality({j \in crs : j < i}) = k - 1
    IN  [k \in 1..(n + 1) |-> SubSeq(text, At(k - 1) + 1, At(k) - 1)]

\* Array.prototype.indexOf(x, fromIndex), 0-based, -1 when absent
IndexOfFrom(a, x, fromIndex) ==
    LET n == Len(a)
        k == IF fromIndex >= 0 THEN fromIndex
             ELSE IF n + fromIndex > 0 THEN n + fromIndex ELSE 0
        hits == {i \in k..(n - 1) : a[i + 1] = x}
    IN  IF hits = {} THEN -1 ELSE CHOOSE i \in hits : \A j \in hits : i <= j

\* Array.prototype.indexOf(x); findIndex(line => line === x) finds the same
IndexOf(a, x) == IndexOfFrom(a, x, 0)

\* what a.splice(start, deleteCount) leaves in a
Splice(a, start, deleteCount) ==
    LET n == Len(a)
        from == IF start < 0 THEN (IF n + start > 0 THEN n + start ELSE 0)
                ELSE (IF start < n THEN start ELSE n)
        cnt == IF deleteCount < 0 THEN 0
               ELSE IF deleteCount < n - from THEN deleteCount ELSE n - from
    IN  SubSeq(a, 1, from) \o SubSeq(a, from + cnt + 1, n)

Credits   == <<"C", "r", "e", "d", "i", "t", "s">>              \* "Credits"
NGlossary == <<"\n", "G", "l", "o", "s", "s", "a", "r", "y">>   \* "\nGlossary"
NCredits  == <<"\n", "C", "r", "e", "d", "i", "t", "s">>        \* "\nCredits"

\* the lines getRules hands to parseRules
RulesLines(text) ==
    LET ls == Split(text)
        startingLine == IndexOf(ls, Credits) + 2
    IN  Splice(ls, 0, startingLine)

\* mutant of GlossaryStart: the second search starts at the found position
\* plus one
GlossaryStartSkipping(ls) ==
    LET glossaryInTableOfContents == IndexOf(ls, NGlossary) IN
    IndexOfFrom(ls, NGlossary, glossaryInTableOfContents + 1) + 1

\* const startingLine = lines.indexOf("\nGlossary", glossaryInTableOfContents) + 1
GlossaryStart(ls) ==
    LET glossaryInTableOfContents == IndexOf(ls, NGlossary) IN
    IndexOfFrom(ls, NGlossary, glossaryInTableOfContents) + 1

\* the lines getGlossary hands to parseGlossary
GlossaryLines(text) ==
    LET ls == Split(text)
        afterStart == Splice(ls, 0, GlossaryStart(ls))
        endingLine == IndexOf(afterStart, NCredits)
    IN  Splice(afterStart, endingLine, Len(afterStart) - endingLine)

DatePrefix ==
    <<"T", "h", "e", "s", "e", " ", "r", "u", "l", "e", "s", " ", "a", "r", "e",
      " ", "e", "f", "f", "e", "c", "t", "i", "v", "e", " ", "a", "s", " ", "o",
      "f", " ">>

\* length of the longest prefix of s without a line terminator: what .+ can span
RECURSIVE DotRun(_)
DotRun(s) ==
    IF s # <<>> /\ Head(s) \notin LineTerminator THEN 1 + DotRun(Tail(s)) ELSE 0

\* new RegExp('These rules are effective as of (.+)\.') : in the string
\* literal "\." is ".", so the pattern ends with any one character
DateMatch(line) ==
    LET starts == {i \in 0..(Len(line) - Len(DatePrefix)) :
                      /\ SubSeq(line, i + 1, i + Len(DatePrefix)) = DatePrefix
                      /\ DotRun(Drop(line, i + Len(DatePrefix))) >= 2}
    IN  IF starts = {} THEN NoMatch
        ELSE LET i == CHOOSE x \in starts : \A y \in starts : x <= y
                 rest == Drop(line, i + Len(DatePrefix))
             IN  [ok |-> TRUE, id |-> SubSeq(rest, 1, DotRun(rest) - 1), text |-> <<>>]

November8 == <<"N", "o", "v", "e", "m", "b", "e", "r", " ", "8", ",", " ",
               "2", "0", "2", "4">>
\* Date.parse on the date phrases of the model; the timestamp is counted in
\* days (milliseconds / 86400000), any other phrase gives NaN
DateParse(phrase) ==
    IF phrase = November8 THEN [kind |-> "number", days |-> 20035]
    ELSE [kind |-> "NaN", days |-> 0]

\* getEffectiveDate: threw when the text has no third line
getEffectiveDate(text) ==
    LET ls == Split(text) IN
    IF ~Has(ls, 2) THEN [kind |-> "threw", days |-> 0]
    ELSE LET matches == DateMatch(ls[3]) IN
         IF matches.ok THEN DateParse(matches.id)
         ELSE [kind |-> "undefined", days |-> 0]

\* if (effectiveDate): undefined, NaN and 0 are falsy
Truthy(d) == d.kind = "number" /\ d.days # 0

\* the raw texts of the model
DDate    == DatePrefix \o November8 \o <<".">>
DBadDate == DatePrefix \o <<"s", "o", "o", "n", ".">>
DTerm    == <<"\n", "A", "b">>                              \* "\nAb"
DPeriod  == <<"\n", "x", ".">>                              \* "\nx."
DRule    == <<"\n", "1", "0", ".", "1", ".", " ", "x">>      \* "\n10.1. x"

DocPool == {Credits, NGlossary, NCredits, DDate, DBadDate, DTerm,
            DPeriod, DRule}

RECURSIVE Join(_)
Join(ls) ==
    IF Len(ls) = 1 THEN ls[1] ELSE ls[1] \o <<CR>> \o Join(Tail(ls))

DocLines == UNION {[1..n -> DocPool] : n \in 1..MaxDocLines}

Texts == {Join(ls) : ls \in DocLines} \cup {<<>>}

NoCall == [called |-> FALSE, passed |-> <<>>, threw |-> FALSE, value |-> <<>>]
NoDate == [kind |-> "unset", days |-> 0]
NoResult == [kind |-> "pending", rules |-> <<>>, glossary |-> <<>>, days |-> 0]

NoRequest == [definition |-> "none", url |-> <<>>]
NoResponse == [kind |-> "none", status |-> 0, contentType |-> "none",
               body |-> [kind |-> "none"]]

InitFetchIdle ==
    /\ request = NoRequest
    /\ response = NoResponse

Extractions == {"getRules", "getGlossary", "getEffectiveDate"}

InitExtractIdle ==
    /\ xpc = [x \in Extractions |-> "idle"]
    /\ linesOfGetRules = <<>>
    /\ linesOfGetGlossary = <<>>

InitDocIdle ==
    /\ pc = "idle"
    /\ rulesText = [defined |-> FALSE, text |-> <<>>]
    /\ rules = NoCall
    /\ glossary = NoCall
    /\ effectiveDate = NoDate
    /\ result = NoResult

\* const rulesText = await getRulesText(): a text, undefined (no link on the
\* page) or an exception (bad response)
GetRulesText ==
    /\ pc = "getRulesText"
    /\ \/ \E text \in Texts :
            /\ rulesText' = [defined |-> TRUE, text |-> text]
            /\ IF text = <<>>
               THEN pc' = "returned" /\ result' = [NoResult EXCEPT !.kind = "undefined"]
               ELSE pc' = "getRules" /\ UNCHANGED result
       \/ /\ rulesText' = [defined |-> FALSE, text |-> <<>>]
          /\ pc' = "returned"
          /\ result' = [NoResult EXCEPT !.kind = "undefined"]
       \/ /\ UNCHANGED rulesText
          /\ pc' = "threw"
          /\ result' = [NoResult EXCEPT !.kind = "exception"]
    /\ UNCHANGED <<rules, glossary, effectiveDate, rulesVars, glossaryVars, fetchVars, extractVars>>

\* const rules = await getRules(rulesText)
GetRules ==
    /\ pc = "getRules"
    /\ LET arg == RulesLines(rulesText.text)
           r == parseRules(arg)
       IN  /\ rules' = [called |-> TRUE, passed |-> arg, threw |-> r.threw,
                        value |-> r.rulesArr]
           /\ IF r.threw
              THEN pc' = "threw" /\ result' = [NoResult EXCEPT !.kind = "exception"]
              ELSE pc' = "getGlossary" /\ UNCHANGED result
    /\ UNCHANGED <<rulesText, glossary, effectiveDate, rulesVars, glossaryVars, fetchVars, extractVars>>

\* const glossary = await getGlossary(rulesText)
GetGlossary ==
    /\ pc = "getGlossary"
    /\ LET arg == GlossaryLines(rulesText.text)
           g == parseGlossary(arg)
       IN  /\ glossary' = [called |-> TRUE, passed |-> arg, threw |-> g.threw,
                           value |-> g.termsArr]
           /\ IF g.threw
              THEN pc' = "threw" /\ result' = [NoResult EXCEPT !.kind = "exception"]
              ELSE pc' = "getEffectiveDate" /\ UNCHANGED result
    /\ UNCHANGED <<rulesText, rules, effectiveDate, rulesVars, glossaryVars, fetchVars, extractVars>>

\* const effectiveDate = getEffectiveDate(rulesText)
GetEffectiveDate ==
    /\ pc = "getEffectiveDate"
    /\ LET d == getEffectiveDate(rulesText.text) IN
        /\ effectiveDate' = d
        /\ IF d.kind = "threw"
           THEN pc' = "threw" /\ result' = [NoResult EXCEPT !.kind = "exception"]
           ELSE pc' = "compose" /\ UNCHANGED result
    /\ UNCHANGED <<rulesText, rules, glossary, rulesVars, glossaryVars, fetchVars, extractVars>>

\* if (effectiveDate) { return { rules, glossary, effectiveDate } }
Compose ==
    /\ pc = "compose"
    /\ pc' = "returned"
    /\ result' = IF Truthy(effectiveDate)
                 THEN [kind |-> "document", rules |-> rules.value,
                       glossary |-> glossary.value, days |-> effectiveDate.days]
                 ELSE [NoResult EXCEPT !.kind = "undefined"]
    /\ UNCHANGED <<rulesText, rules, glossary, effectiveDate, rulesVars, glossaryVars, fetchVars, extractVars>>

(***************************************************************************)
(* The specifications: parseRules alone, parseGlossary alone, and          *)
(* getRulesObject over a whole raw text.                                   *)
(***************************************************************************)
Init ==
    /\ InitRules
    /\ InitGlossary
    /\ InitDocIdle
    /\ InitFetchIdle
    /\ InitExtractIdle

Next ==
    \/ \E line \in LinePool : ForEachLine(line)
    \/ Return

Spec == Init /\ [][Next]_vars

NextGlossary ==
    \/ \E line \in GlossaryPool : GlossaryForEachLine(line)
    \/ GlossaryReturn

SpecGlossary == Init /\ [][NextGlossary]_vars

InitDoc ==
    /\ InitRules
    /\ InitGlossary
    /\ InitFetchIdle
    /\ InitExtractIdle
    /\ pc = "getRulesText"
    /\ rulesText = [defined |-> FALSE, text |-> <<>>]
    /\ rules = NoCall
    /\ glossary = NoCall
    /\ effectiveDate = NoDate
    /\ result = NoResult

NextDoc ==
    \/ GetRulesText
    \/ GetRules
    \/ GetGlossary
    \/ GetEffectiveDate
    \/ Compose

SpecDoc == InitDoc /\ [][NextDoc]_vars

(***************************************************************************)
(* Reading the history of a pass off the lines visited so far.             *)
(***************************************************************************)
Last(s) == s[Len(s)]

\* the step just taken visited a line (it is not the return)
Visited == Len(lines') = Len(lines) + 1

\* position in ls of the most recent line of one of the kinds, 0 if none
LastPos(ls, kinds) ==
    LET ps == {i \in 1..Len(ls) : KindOf[ls[i]] \in kinds} IN
    IF ps = {} THEN 0 ELSE CHOOSE i \in ps : \A j \in ps : j <= i

\* the state of the pass after the first i lines of ls
StateAfter(ls, i) == parseRules(SubSeq(ls, 1, i))

LineId(line) ==
    LET t == Trim(line) IN
    CASE KindOf[line] = "category" -> categoryMatch(t).id
      [] KindOf[line] = "subcategory" -> subcategoryMatch(t).id
      [] KindOf[line] = "rule" -> ruleMatch(t).id
      [] KindOf[line] = "subrule" -> subruleMatch(t).id
      [] OTHER -> <<>>

\* positions of a that hold id
Holding(a, id) == {i \in 1..Len(a) : a[i].id = id}

\* the most recent Category line of ls named a Category that existed already
RepeatedCategory(ls) ==
    LET p == LastPos(ls, {"category"}) IN
    /\ p > 0
    /\ SomeId(StateAfter(ls, p - 1).rulesArr, LineId(ls[p]))

\* the most recent header line of ls is a Subcategory line that named a
\* Subcategory that existed already in the current Category
RepeatedSubcategory(ls) ==
    LET q == LastPos(ls, {"category", "subcategory"}) IN
    /\ q > 0
    /\ KindOf[ls[q]] = "subcategory"
    /\ LET b == StateAfter(ls, q - 1) IN
        /\ ~b.threw
        /\ Has(b.rulesArr, b.lastCategoryIndex)
        /\ SomeId(b.rulesArr[b.lastCategoryIndex + 1].subcategories, LineId(ls[q]))

\* a and b are equal except at position i
SameExceptAt(a, b, i) ==
    /\ Len(a) = Len(b)
    /\ \A j \in 1..Len(a) : j # i => a[j] = b[j]

(***************************************************************************)
(* C1: a Category line whose id exists already, or a Subcategory line      *)
(* whose id exists already in the current Category, creates no second      *)
(* entity (exactly one entity with that id at that level), and the         *)
(* Subcategory and Rule lines that follow the repeated header are attached *)
(* to the entity that existed already, wherever it stands in its list.     *)
(***************************************************************************)
C1_Step ==
    LET line == Last(lines')
        id == LineId(line)
        kind == KindOf[line]
        c == lastCategoryIndex + 1
    IN
    /\ (kind = "category" /\ SomeId(rulesArr, id)) =>
          /\ status' = "running"
          /\ rulesArr' = rulesArr
          /\ Cardinality(Holding(rulesArr', id)) = 1
          /\ rulesArr'[lastCategoryIndex' + 1].id = id
    /\ (kind = "subcategory" /\ Has(rulesArr, c - 1)
                             /\ SomeId(rulesArr[c].subcategories, id)) =>
          /\ status' = "running"
          /\ rulesArr' = rulesArr
          /\ Cardinality(Holding(rulesArr'[c].subcategories, id)) = 1
          /\ rulesArr'[c].subcategories[lastSubcategoryIndex' + 1].id = id
    /\ (kind = "subcategory" /\ status' = "running" /\ RepeatedCategory(lines)) =>
          LET cid == LineId(lines[LastPos(lines, {"category"})])
              e == CHOOSE i \in Holding(rulesArr, cid) : TRUE
          IN  /\ Holding(rulesArr, cid) = {e}
              /\ SameExceptAt(rulesArr, rulesArr', e)
              /\ SomeId(rulesArr'[e].subcategories, id)
    /\ (kind = "rule" /\ status' = "running" /\ RepeatedSubcategory(lines)) =>
          LET sid == LineId(lines[LastPos(lines, {"subcategory"})])
              e == CHOOSE i \in Holding(rulesArr[c].subcategories, sid) : TRUE
          IN  /\ Holding(rulesArr[c].subcategories, sid) = {e}
              /\ SameExceptAt(rulesArr, rulesArr', c)
              /\ SameExceptAt(rulesArr[c].subcategories, rulesArr'[c].subcategories, e)
              /\ Len(rulesArr'[c].subcategories[e].rules) =
                     Len(rulesArr[c].subcategories[e].rules) + 1
              /\ Last(rulesArr'[c].subcategories[e].rules).id = id

\* C1: every step of the pass treats a repeated header as stated above
C1_RepeatedHeaders == [][Visited => C1_Step]_vars

\* "1. Aa", "2. Bb", "1. Aa" again, then a Subcategory and a Rule: both sit
\* under the first Category, which is not the last element of the result
C1_Witness ==
    /\ status = "running"
    /\ Len(lines) >= 4
    /\ KindOf[Last(lines)] \in {"subcategory", "rule"}
    /\ RepeatedCategory(lines)
    /\ Len(rulesArr) = 2
    /\ lastCategoryIndex = 0
    /\ rulesArr[1].subcategories # <<>>
    /\ rulesArr[2].subcategories = <<>>

(***************************************************************************)
(* C2: in a sequence of Category, Subcategory, Rule and Subrule lines in   *)
(* which every child-level line is preceded by a line of its parent level, *)
(* every Subcategory is attached to the Category named by the most recent  *)
(* Category line, every Rule to the Subcategory named by the most recent   *)
(* Subcategory line, and every Subrule to the Rule entity created by the   *)
(* most recent Rule line.                                                  *)
(***************************************************************************)
\* the parent of a line of this kind has not been established by ls
\* the parent of a line of this kind has not been established by ls
Orphan(ls, kind) ==
    \/ kind = "subcategory" /\ LastPos(ls, {"category"}) = 0
    \/ kind = "rule" /\ LastPos(ls, {"subcategory"}) <= LastPos(ls, {"category"})
    \/ kind = "subrule" /\ LastPos(ls, {"rule"}) <=
                               LastPos(ls, {"category", "subcategory"})

\* every line matches a pattern and follows a line of its parent level that
\* no line of a higher level has superseded
WellFormed(ls) ==
    \A i \in 1..Len(ls) :
        /\ KindOf[ls[i]] \in {"category", "subcategory", "rule", "subrule"}
        /\ ~Orphan(SubSeq(ls, 1, i - 1), KindOf[ls[i]])

C2_Step ==
    LET line == Last(lines')
        id == LineId(line)
        kind == KindOf[line]
    IN
    WellFormed(lines') =>
      /\ status' = "running"
      /\ kind = "subcategory" =>
            LET cid == LineId(lines[LastPos(lines, {"category"})])
                e == CHOOSE i \in Holding(rulesArr', cid) : TRUE
            IN  /\ Holding(rulesArr', cid) = {e}
                /\ SameExceptAt(rulesArr, rulesArr', e)
                /\ SomeId(rulesArr'[e].subcategories, id)
      /\ kind = "rule" =>
            LET a == StateAfter(lines, LastPos(lines, {"subcategory"}))
                c == a.lastCategoryIndex + 1
                s == a.lastSubcategoryIndex + 1
            IN  rulesArr'[c].subcategories[s].rules =
                    Append(rulesArr[c].subcategories[s].rules,
                           [id |-> id, rule |-> ruleMatch(Trim(line)).text,
                            subrules |-> <<>>])
      /\ kind = "subrule" =>
            LET a == StateAfter(lines, LastPos(lines, {"rule"}))
                c == a.lastCategoryIndex + 1
                s == a.lastSubcategoryIndex + 1
                r == Len(a.rulesArr[c].subcategories[s].rules)
            IN  rulesArr'[c].subcategories[s].rules[r].subrules =
                    Append(rulesArr[c].subcategories[s].rules[r].subrules,
                           [id |-> id, rule |-> subruleMatch(Trim(line)).text])

\* C2: every step of a well-formed pass attaches to the most recent ancestor
C2_MostRecentAncestor == [][Visited => C2_Step]_vars

(***************************************************************************)
(* C3: a Subcategory, Rule or Subrule line that arrives when its parent    *)
(* has not been established (no Category line yet; no Subcategory line     *)
(* since the current Category was selected; no Rule line since the current *)
(* Subcategory was selected) ends the pass in an error and is attached to  *)
(* nothing.                                                                *)
(***************************************************************************)
C3_Step ==
    Orphan(lines, KindOf[Last(lines')]) =>
        /\ status' = "threw"
        /\ rulesArr' = rulesArr

\* C3: every step that visits an orphan line throws and changes no entity
C3_OrphanIsError == [][Visited => C3_Step]_vars

(***************************************************************************)
(* C4: after any prefix of any line sequence, ids are unique within every  *)
(* sibling list: Categories, the Subcategories of a Category, the Rules of *)
(* a Subcategory and the Subrules of a Rule.                               *)
(***************************************************************************)
UniqueIds(a) == \A i, j \in 1..Len(a) : a[i].id = a[j].id => i = j

CategoriesUnique == UniqueIds(rulesArr)

SubcategoriesUnique ==
    \A c \in 1..Len(rulesArr) : UniqueIds(rulesArr[c].subcategories)

RulesUnique ==
    \A c \in 1..Len(rulesArr) :
        \A s \in 1..Len(rulesArr[c].subcategories) :
            UniqueIds(rulesArr[c].subcategories[s].rules)

SubrulesUnique ==
    \A c \in 1..Len(rulesArr) :
        \A s \in 1..Len(rulesArr[c].subcategories) :
            \A r \in 1..Len(rulesArr[c].subcategories[s].rules) :
                UniqueIds(rulesArr[c].subcategories[s].rules[r].subrules)

\* C4 as stated: unique at all four levels
C4_AllSiblingIdsUnique ==
    CategoriesUnique /\ SubcategoriesUnique /\ RulesUnique /\ SubrulesUnique

\* C4 as amended: after any prefix of any line sequence, no two Categories
\* of the result and no two Subcategories of one Category have the same id
\* (Rules and Subrules are appended without a lookup)
C4_HeaderIdsUnique == CategoriesUnique /\ SubcategoriesUnique

\* a Category header and then a Subcategory header were both repeated
C4_Witness ==
    /\ status = "running"
    /\ RepeatedCategory(lines)
    /\ RepeatedSubcategory(lines)
    /\ Len(rulesArr) = 2

(***************************************************************************)
(* Reading the history of a parseGlossary pass.                            *)
(***************************************************************************)
GVisited == Len(gLines') = Len(gLines) + 1

\* some line of ls is a term line
TermSeen(ls) == \E i \in 1..Len(ls) : GKindOf[ls[i]] = "term"

\* the trimmed non-blank lines of ls, in order
RECURSIVE CleanLines(_)
CleanLines(ls) ==
    IF ls = <<>> THEN <<>>
    ELSE IF Trim(Head(ls)) = <<>> THEN CleanLines(Tail(ls))
    ELSE <<Trim(Head(ls))>> \o CleanLines(Tail(ls))

(***************************************************************************)
(* C8: each new-term line appends one GlossaryTerm with empty meanings and *)
(* makes that newly appended term the current term, so that every          *)
(* following continuation line is appended to the meanings of the most     *)
(* recently appended GlossaryTerm, also when an earlier term has the same  *)
(* text.                                                                   *)
(***************************************************************************)
C8_Step ==
    LET line == Last(gLines')
        cleanLine == Trim(line)
        kind == GKindOf[line]
    IN
    /\ kind = "term" =>
          termsArr' = Append(termsArr, [term |-> cleanLine, meanings |-> <<>>])
    /\ (kind = "meaning" /\ TermSeen(gLines)) =>
          termsArr' = [termsArr EXCEPT ![Len(termsArr)].meanings = Append(@, cleanLine)]

\* C8: every step appends to, or after, the most recently appended term
C8_NewestTermIsCurrent == [][GVisited => C8_Step]_vars

(***************************************************************************)
(* C9: a term line followed by two non-terminal-looking lines (ending with *)
(* neither a period nor a closing typographic quote, not containing "See   *)
(* rule") and then a period-terminated line produces exactly one           *)
(* GlossaryTerm, whose meanings are those three lines in original order.   *)
(***************************************************************************)
NonTerminalLooking(cleanLine) ==
    /\ ~EndsWith(cleanLine, ".")
    /\ ~EndsWith(cleanLine, RDQUO)
    /\ ~Includes(cleanLine, SeeRule)

Continuation(cleanLine) ==
    \/ EndsWith(cleanLine, ".")
    \/ EndsWith(cleanLine, RDQUO)
    \/ Includes(cleanLine, SeeRule)

OneTermThreeMeanings(ls) ==
    /\ gStatus # "threw"
    /\ termsArr = <<[term |-> ls[1], meanings |-> <<ls[2], ls[3], ls[4]>>]>>

\* C9 as stated
C9_NonTerminalLinesGrouped ==
    LET ls == CleanLines(gLines) IN
    (/\ Len(ls) = 4
     /\ NonTerminalLooking(ls[1])
     /\ NonTerminalLooking(ls[2])
     /\ NonTerminalLooking(ls[3])
     /\ EndsWith(ls[4], ".")) => OneTermThreeMeanings(ls)

\* C9 as amended: a term line followed by two continuation lines (each
\* ending with a period or a closing typographic quote, or containing "See
\* rule") and then a period-terminated line produces exactly one
\* GlossaryTerm, whose meanings are those three lines in original order
C9_ContinuationLinesGrouped ==
    LET ls == CleanLines(gLines) IN
    (/\ Len(ls) = 4
     /\ NonTerminalLooking(ls[1])
     /\ Continuation(ls[2])
     /\ Continuation(ls[3])
     /\ EndsWith(ls[4], ".")) => OneTermThreeMeanings(ls)

\* the pass returned one term whose first two meanings end with no period
C9_Witness ==
    LET ls == CleanLines(gLines) IN
    /\ gStatus = "returned"
    /\ Len(ls) = 4
    /\ NonTerminalLooking(ls[1])
    /\ Continuation(ls[2]) /\ ~EndsWith(ls[2], ".")
    /\ Continuation(ls[3]) /\ ~EndsWith(ls[3], ".") /\ ls[3] # ls[2]
    /\ EndsWith(ls[4], ".")
    /\ Len(termsArr) = 1
    /\ Len(termsArr[1].meanings) = 3

(***************************************************************************)
(* C10: a continuation line processed before any term line ends the pass   *)
(* in an error; it is neither dropped nor turned into or attached to a     *)
(* GlossaryTerm.                                                           *)
(***************************************************************************)
C10_Step ==
    (GKindOf[Last(gLines')] = "meaning" /\ ~TermSeen(gLines)) =>
        /\ gStatus' = "threw"
        /\ termsArr' = <<>>

\* C10: every step that visits a continuation line before any term throws
C10_EarlyContinuationThrows == [][GVisited => C10_Step]_vars

\* blank lines, then a continuation line with no term before it: thrown
C10_Witness ==
    /\ gStatus = "threw"
    /\ Len(gLines) >= 2
    /\ GKindOf[Last(gLines)] = "meaning"
    /\ ~TermSeen(gLines)
    /\ termsArr = <<>>

(***************************************************************************)
(* Reading a raw text: where its anchor lines stand (1-based positions).   *)
(***************************************************************************)
Positions(ls, x) == {i \in 1..Len(ls) : ls[i] = x}

Min(S) == CHOOSE i \in S : \A j \in S : i <= j
Max(S) == CHOOSE i \in S : \A j \in S : j <= i

(***************************************************************************)
(* C5: for a text whose lines hold the glossary heading twice and a        *)
(* credits marker after the second, getGlossary hands to parseGlossary     *)
(* exactly the lines strictly between the second heading and the next      *)
(* credits marker.                                                         *)
(***************************************************************************)
C5_BodyAfterSecondHeading ==
    glossary.called =>
        LET ls == Split(rulesText.text)
            g == Positions(ls, NGlossary)
        IN  (/\ Cardinality(g) = 2
             /\ \E k \in Positions(ls, NCredits) : k > Max(g)) =>
                LET k == Min({i \in Positions(ls, NCredits) : i > Max(g)}) IN
                glossary.passed = SubSeq(ls, Max(g) + 1, k - 1)

(***************************************************************************)
(* C6: when a required anchor line is absent (no line equal to the credits *)
(* marker for getRules; no glossary heading or no credits marker after it  *)
(* for getGlossary), the extraction yields an empty result and no line of  *)
(* the text is handed to the parser.                                       *)
(***************************************************************************)
C6_MissingAnchorYieldsNothing ==
    LET ls == Split(rulesText.text) IN
    /\ (rules.called /\ Positions(ls, Credits) = {}) =>
            rules.passed = <<>> /\ rules.value = <<>>
    /\ (glossary.called
          /\ \/ Positions(ls, NGlossary) = {}
             \/ ~\E k \in Positions(ls, NCredits) : k > Max(Positions(ls, NGlossary))) =>
            glossary.passed = <<>> /\ glossary.value = <<>>

(***************************************************************************)
(* C7: getRulesObject produces a document exactly when an effective date   *)
(* was extracted: when the third line of the text does not match the       *)
(* sentence (also when there is no third line or the date phrase does not  *)
(* parse) it returns no result, neither a partial document nor an          *)
(* exception; otherwise it returns rules, glossary and effectiveDate.      *)
(* Stated for the calls in which getRules and getGlossary have returned,   *)
(* so that the outcome is decided by getEffectiveDate alone.               *)
(***************************************************************************)
DateExtracted ==
    /\ rulesText.defined
    /\ LET ls == Split(rulesText.text) IN
        /\ Len(ls) >= 3
        /\ DateMatch(ls[3]).ok
        /\ DateParse(DateMatch(ls[3]).id).kind = "number"

\* C7: the call ends with a document if a date was extracted and with
\* undefined, not an exception, if not
C7_DocumentIffDate ==
    (pc \in {"returned", "threw"} /\ glossary.called /\ ~glossary.threw) =>
        IF DateExtracted
        THEN /\ result.kind = "document"
             /\ result.rules = rules.value
             /\ result.glossary = glossary.value
             /\ result.days = DateParse(DateMatch(Split(rulesText.text)[3]).id).days
        ELSE result.kind = "undefined"

(***************************************************************************)
(* C12: a blank line, or a non-blank line that matches none of the four    *)
(* patterns, leaves the result tree and the three cursors as they were and *)
(* raises no error, whatever the state the pass has reached.               *)
(***************************************************************************)
C12_Step ==
    KindOf[Last(lines')] \in {"blank", "none"} =>
        /\ rulesArr' = rulesArr
        /\ lastCategoryIndex' = lastCategoryIndex
        /\ lastSubcategoryIndex' = lastSubcategoryIndex
        /\ lastRuleIndex' = lastRuleIndex
        /\ status' = "running"

\* C12: every step that visits a blank or unmatched line changes nothing
C12_IgnoredLinesChangeNothing == [][Visited => C12_Step]_vars

\* an unmatched line and then a blank line were visited after the pass had
\* built a tree and moved a cursor off zero
C12_Witness ==
    /\ Len(lines) = 5
    /\ KindOf[lines[4]] = "none"
    /\ lines[4] # <<>>
    /\ KindOf[lines[5]] = "blank"
    /\ status = "running"
    /\ lastSubcategoryIndex = 1
    /\ Len(rulesArr) = 1
    /\ Len(rulesArr[1].subcategories) = 2

\* b holds every Subrule of a, unchanged and in place, and possibly more
SubrulesExtend(a, b) ==
    /\ Len(a) <= Len(b)
    /\ \A i \in 1..Len(a) : b[i] = a[i]

\* the same for Rules, each with its Subrules
RulesExtend(a, b) ==
    /\ Len(a) <= Len(b)
    /\ \A i \in 1..Len(a) :
          /\ b[i].id = a[i].id
          /\ b[i].rule = a[i].rule
          /\ SubrulesExtend(a[i].subrules, b[i].subrules)

\* the same for Subcategories, each with its Rules
SubcategoriesExtend(a, b) ==
    /\ Len(a) <= Len(b)
    /\ \A i \in 1..Len(a) :
          /\ b[i].id = a[i].id
          /\ b[i].title = a[i].title
          /\ RulesExtend(a[i].rules, b[i].rules)

\* the same for Categories, each with its Subcategories
CategoriesExtend(a, b) ==
    /\ Len(a) <= Len(b)
    /\ \A i \in 1..Len(a) :
          /\ b[i].id = a[i].id
          /\ b[i].title = a[i].title
          /\ SubcategoriesExtend(a[i].subcategories, b[i].subcategories)

\* the child lists named field of the elements of a, end to end
RECURSIVE Concat(_, _)
Concat(a, field) ==
    IF a = <<>> THEN <<>> ELSE Head(a)[field] \o Concat(Tail(a), field)

\* every entity of a level, in document order of its parents
AllSubcategories(a) == Concat(a, "subcategories")
AllRules(a) == Concat(AllSubcategories(a), "rules")
AllSubrules(a) == Concat(AllRules(a), "subrules")

TotalRules(a) == Len(AllRules(a))
TotalSubrules(a) == Len(AllSubrules(a))
TotalEntities(a) ==
    Len(a) + Len(AllSubcategories(a)) + TotalRules(a) + TotalSubrules(a)

(***************************************************************************)
(* C13: every step of the pass only appends.  An entity, once created,     *)
(* keeps its id, its title or text, its parent and its position among its  *)
(* siblings; every child list only grows at its end; nothing is moved or   *)
(* removed, and a step adds at most one entity.                            *)
(***************************************************************************)
C13_Step ==
    /\ CategoriesExtend(rulesArr, rulesArr')
    /\ TotalEntities(rulesArr') \in {TotalEntities(rulesArr), TotalEntities(rulesArr) + 1}

\* C13: every step of the pass extends the tree and changes nothing in it
C13_AppendOnly == [][Visited => C13_Step]_vars

\* a Rule was appended after an earlier Rule that already held a Subrule:
\* the earlier Rule and its Subrule are where they were
C13_Witness ==
    /\ status = "running"
    /\ Len(lines) = 5
    /\ KindOf[lines[5]] = "rule"
    /\ Len(rulesArr) = 1
    /\ Len(rulesArr[1].subcategories) = 1
    /\ Len(rulesArr[1].subcategories[1].rules) = 2
    /\ Len(rulesArr[1].subcategories[1].rules[1].subrules) = 1

\* number of lines of ls of one kind
CountKind(ls, kind) == Cardinality({i \in 1..Len(ls) : KindOf[ls[i]] = kind})

(***************************************************************************)
(* C16: every Rule line and every Subrule line processed without error     *)
(* appends exactly one new entity, with no deduplication: as long as no    *)
(* error occurred the number of Rule entities in the tree is the number of *)
(* Rule lines visited and the number of Subrule entities is the number of  *)
(* Subrule lines visited, and a new Rule starts with no Subrules.          *)
(***************************************************************************)
C16_Step ==
    LET line == Last(lines')
        kind == KindOf[line]
        c == lastCategoryIndex + 1
        s == lastSubcategoryIndex + 1
        r == lastRuleIndex + 1
    IN
    status' = "running" =>
        /\ TotalRules(rulesArr') = CountKind(lines', "rule")
        /\ TotalSubrules(rulesArr') = CountKind(lines', "subrule")
        /\ kind = "rule" =>
              LET old == rulesArr[c].subcategories[s].rules
                  new == rulesArr'[c].subcategories[s].rules
              IN  /\ TotalRules(rulesArr') = TotalRules(rulesArr) + 1
                  /\ Len(new) = Len(old) + 1
                  /\ Last(new).id = LineId(line)
                  /\ Last(new).subrules = <<>>
        /\ kind = "subrule" =>
              LET old == rulesArr[c].subcategories[s].rules[r].subrules
                  new == rulesArr'[c].subcategories[s].rules[r].subrules
              IN  /\ TotalSubrules(rulesArr') = TotalSubrules(rulesArr) + 1
                  /\ Len(new) = Len(old) + 1
                  /\ Last(new).id = LineId(line)

\* C16: every error-free step keeps one Rule per Rule line and one Subrule
\* per Subrule line
C16_OneEntityPerLine == [][Visited => C16_Step]_vars

\* the same Rule line twice and the same Subrule line twice, all four kept
C16_Witness ==
    /\ status = "returned"
    /\ CountKind(lines, "rule") = 2
    /\ Len(rulesArr) = 1
    /\ Len(rulesArr[1].subcategories) = 1
    /\ LET rs == rulesArr[1].subcategories[1].rules IN
          /\ Len(rs) = 2
          /\ rs[1].id = rs[2].id
          /\ rs[2].subrules = <<>>
          /\ Len(rs[1].subrules) = 1

(***************************************************************************)
(* C17: a Category line, or a Subcategory line, whose id exists already    *)
(* leaves the whole tree unchanged, the title recorded at the first        *)
(* occurrence included when the repeated line carries another title; only  *)
(* the cursor of that level moves (to the existing entity), and the        *)
(* cursors of the levels below are not reset.                              *)
(***************************************************************************)
C17_Step ==
    LET line == Last(lines')
        id == LineId(line)
        kind == KindOf[line]
        c == lastCategoryIndex + 1
    IN
    /\ (kind = "category" /\ SomeId(rulesArr, id)) =>
          /\ status' = "running"
          /\ rulesArr' = rulesArr
          /\ Has(rulesArr, lastCategoryIndex')
          /\ rulesArr[lastCategoryIndex' + 1].id = id
          /\ lastSubcategoryIndex' = lastSubcategoryIndex
          /\ lastRuleIndex' = lastRuleIndex
    /\ (kind = "subcategory" /\ Has(rulesArr, c - 1)
                             /\ SomeId(rulesArr[c].subcategories, id)) =>
          /\ status' = "running"
          /\ rulesArr' = rulesArr
          /\ lastCategoryIndex' = lastCategoryIndex
          /\ Has(rulesArr[c].subcategories, lastSubcategoryIndex')
          /\ rulesArr[c].subcategories[lastSubcategoryIndex' + 1].id = id
          /\ lastRuleIndex' = lastRuleIndex

\* C17: every step that visits a repeated header line moves one cursor only
C17_RepeatedHeaderMovesOneCursor == [][Visited => C17_Step]_vars

\* "1. Cc" repeats Category 1 (title "Aa") while the Subcategory cursor is
\* 1, then "10. Cc" repeats Subcategory 10 (title "Aa"): both titles are
\* the first ones and the Subcategory cursor was 1 after the Category line
C17_Witness ==
    /\ Len(lines) = 5
    /\ lines[1] = LCat1
    /\ lines[4] = LCat1x
    /\ lines[5] = LSub10x
    /\ status = "running"
    /\ Len(rulesArr) = 1
    /\ rulesArr[1].title = <<"A", "a">>
    /\ Len(rulesArr[1].subcategories) = 2
    /\ rulesArr[1].subcategories[1].title = <<"A", "a">>
    /\ StateAfter(lines, 3).lastSubcategoryIndex = 1
    /\ StateAfter(lines, 4).lastSubcategoryIndex = 1
    /\ lastSubcategoryIndex = 0

\* the patterns that the trimmed line matches
Matching(line) ==
    LET t == Trim(line) IN
    {k \in {"category", "subcategory", "rule", "subrule"} :
        CASE k = "category" -> categoryMatch(t).ok
          [] k = "subcategory" -> subcategoryMatch(t).ok
          [] k = "rule" -> ruleMatch(t).ok
          [] k = "subrule" -> subruleMatch(t).ok}

\* the lines of the pool with two digits after the dot of the id
TwoDigitsAfterDot == {LLong, LLongSub}

(***************************************************************************)
(* C18: a line with two or more digits after the dot of a rule id, such as *)
(* "10.10. x" or "10.10a z", matches none of the four patterns, creates no *)
(* Rule or Subrule and leaves tree and cursors unchanged; and a line never *)
(* matches two patterns, so the branch it takes is the one pattern it      *)
(* matches whatever the order of the tests.                                *)
(***************************************************************************)
C18_Step ==
    LET line == Last(lines')
        ms == Matching(line)
    IN
    /\ Cardinality(ms) <= 1
    /\ line # <<>> => (IF ms = {} THEN KindOf[line] = "none" ELSE ms = {KindOf[line]})
    /\ line \in TwoDigitsAfterDot =>
          /\ ms = {}
          /\ rulesArr' = rulesArr
          /\ lastCategoryIndex' = lastCategoryIndex
          /\ lastSubcategoryIndex' = lastSubcategoryIndex
          /\ lastRuleIndex' = lastRuleIndex
          /\ status' = "running"

\* C18: every step classifies its line by at most one pattern and ignores a
\* line with two digits after the dot
C18_OneDigitAfterDot == [][Visited => C18_Step]_vars

\* "10.10. x" and "10.10a z" were visited under a Subcategory that holds a
\* Rule: no Rule and no Subrule came of them
C18_Witness ==
    /\ Len(lines) = 5
    /\ lines[4] = LLong
    /\ lines[5] = LLongSub
    /\ status = "running"
    /\ KindOf[lines[3]] = "rule"
    /\ TotalRules(rulesArr) = 1
    /\ TotalSubrules(rulesArr) = 0

\* the new-term lines among the trimmed non-blank lines cl, in order
RECURSIVE TermLines(_)
TermLines(cl) ==
    IF cl = <<>> THEN <<>>
    ELSE IF NonTerminalLooking(Head(cl)) THEN <<Head(cl)>> \o TermLines(Tail(cl))
    ELSE TermLines(Tail(cl))

(***************************************************************************)
(* C11: a term line that is followed at once (blank lines aside) by        *)
(* another term line yields a GlossaryTerm whose meanings list is empty,   *)
(* without error; and the GlossaryTerms of the result are the new-term     *)
(* lines processed, one each, in document order.                           *)
(***************************************************************************)
C11_TermAfterTermStaysEmpty ==
    LET cl == CleanLines(gLines)
        ts == TermLines(cl)
    IN
    TermSeen(gLines) =>
        /\ gStatus # "threw"
        /\ Len(termsArr) = Len(ts)
        /\ \A k \in 1..Len(ts) : termsArr[k].term = ts[k]
        /\ \A i \in 1..(Len(cl) - 1) :
              (NonTerminalLooking(cl[i]) /\ NonTerminalLooking(cl[i + 1])) =>
                  termsArr[Len(TermLines(SubSeq(cl, 1, i)))].meanings = <<>>

(***************************************************************************)
(* The request handler, fetch.  The source holds two definitions of it:    *)
(* the first tests for "/v1/mtg/rules" and answers with whatever           *)
(* getRulesObject resolved to, the second tests for "/v1/rules" and        *)
(* answers 500 when getRulesObject resolved to undefined.  A request is    *)
(* served by either.                                                       *)
(***************************************************************************)
MtgRulesPath == <<"/", "v", "1", "/", "m", "t", "g", "/", "r", "u", "l", "e", "s">>
RulesPath    == <<"/", "v", "1", "/", "r", "u", "l", "e", "s">>

Definitions == {"first", "second"}

\* the string each definition looks for in request.url
PathOf(definition) == IF definition = "first" THEN MtgRulesPath ELSE RulesPath

\* request.url of the requests of the model
UrlMtgRules == <<"h", "/", "v", "1", "/", "m", "t", "g", "/", "r", "u", "l", "e", "s">>
UrlRules    == <<"h", "/", "v", "1", "/", "r", "u", "l", "e", "s">>
UrlRulesSub == <<"h", "/", "v", "1", "/", "r", "u", "l", "e", "s", "/", "x">>
UrlOther    == <<"h", "/", "x">>

Urls == {UrlMtgRules, UrlRules, UrlRulesSub, UrlOther}

\* JSON.stringify(rules): the text of the document, or undefined for
\* undefined
JSONStringify(r) ==
    IF r.kind = "document"
    THEN [kind |-> "json", rules |-> r.rules, glossary |-> r.glossary,
          effectiveDate |-> r.days]
    ELSE [kind |-> "undefined"]

\* new Response(body, { headers: { "Content-Type": "application/json" } }):
\* status 200; an undefined body is no body
JsonResponse(body) ==
    [kind |-> "response", status |-> 200, contentType |-> "application/json",
     body |-> IF body.kind = "undefined" THEN [kind |-> "empty"] ELSE body]

\* new Response(text, { status })
TextResponse(text, st) ==
    [kind |-> "response", status |-> st, contentType |-> "text/plain",
     body |-> [kind |-> "text", text |-> text]]

\* the promise of fetch rejected: await getRulesObject() threw
Rejected == [NoResponse EXCEPT !.kind = "rejected"]

\* first definition, after the await
FetchFirst(r) == JsonResponse(JSONStringify(r))

\* second definition, after the await
FetchSecond(r) ==
    IF r.kind = "document" THEN JsonResponse(JSONStringify(r))
    ELSE TextResponse("Couldn't get effective date", 500)

\* fetch(request) up to the await of getRulesObject, or to the 404
Fetch(definition, url) ==
    /\ request = NoRequest
    /\ pc = "idle"
    /\ request' = [definition |-> definition, url |-> url]
    /\ IF Includes(url, PathOf(definition))
       THEN pc' = "getRulesText" /\ UNCHANGED response
       ELSE pc' = pc /\ response' = TextResponse("Invalid url", 404)
    /\ UNCHANGED <<rulesText, rules, glossary, effectiveDate, result>>
    /\ UNCHANGED <<rulesVars, glossaryVars, extractVars>>

\* fetch(request) after the await of getRulesObject
Respond ==
    /\ request # NoRequest
    /\ response = NoResponse
    /\ pc \in {"returned", "threw"}
    /\ response' = IF result.kind = "exception" THEN Rejected
                   ELSE IF request.definition = "first" THEN FetchFirst(result)
                   ELSE FetchSecond(result)
    /\ UNCHANGED <<request, docVars, rulesVars, glossaryVars, extractVars>>

NextFetch ==
    \/ \E definition \in Definitions, url \in Urls : Fetch(definition, url)
    \/ GetRulesText
    \/ GetRules
    \/ GetGlossary
    \/ GetEffectiveDate
    \/ Compose
    \/ Respond

SpecFetch == Init /\ [][NextFetch]_vars

\* the request is on the rules path of the definition that serves it
OnRulesPath == Includes(request.url, PathOf(request.definition))

(***************************************************************************)
(* C14: the handler answers a request on the rules path with the JSON      *)
(* document (content type application/json) when getRulesObject produced a *)
(* document and with status 500 when it produced none, and every other URL *)
(* with 404; no request on the rules path receives a success response      *)
(* whose body is not a complete document.                                  *)
(***************************************************************************)
C14_HandlerAnswers ==
    response.kind = "response" =>
        IF OnRulesPath
        THEN /\ result.kind = "document" =>
                  /\ response.status = 200
                  /\ response.contentType = "application/json"
                  /\ response.body = JSONStringify(result)
             /\ result.kind = "undefined" => response.status = 500
             /\ response.status \in 200..299 =>
                  /\ result.kind = "document"
                  /\ response.body = JSONStringify(result)
        ELSE response.status = 404

(***************************************************************************)
(* The three extractions of getRulesObject run apart, in any order and     *)
(* interleaved statement by statement.  getRules and getGlossary each      *)
(* split the raw text into an array of their own and splice that array.    *)
(***************************************************************************)
MaxOrderLines == 4

OrderPool == {Credits, NGlossary, NCredits, DTerm, DDate}

OrderTexts == {Join(ls) : ls \in UNION {[1..n -> OrderPool] : n \in 1..MaxOrderLines}}

\* getRules: const lines = rulesText.split("\r")
GetRulesSplit == Split(rulesText.text)

\* mutant of GetGlossarySplit: getGlossary works on the array of getRules
\* when that exists
GetGlossarySplitShared ==
    IF xpc["getRules"] # "split" THEN linesOfGetRules ELSE Split(rulesText.text)

\* getGlossary: const lines = rulesText.split("\r")
GetGlossarySplit == Split(rulesText.text)

InitOrder ==
    /\ InitRules
    /\ InitGlossary
    /\ InitFetchIdle
    /\ pc = "idle"
    /\ rulesText \in {[defined |-> TRUE, text |-> t] : t \in OrderTexts}
    /\ rules = NoCall
    /\ glossary = NoCall
    /\ effectiveDate = NoDate
    /\ result = NoResult
    /\ xpc = [x \in Extractions |-> "split"]
    /\ linesOfGetRules = <<>>
    /\ linesOfGetGlossary = <<>>

OrderFrame == UNCHANGED <<pc, rulesText, result, rulesVars, glossaryVars, fetchVars>>

\* getRules: const lines = rulesText.split("\r")
RulesSplit ==
    /\ xpc["getRules"] = "split"
    /\ linesOfGetRules' = GetRulesSplit
    /\ xpc' = [xpc EXCEPT !["getRules"] = "splice"]
    /\ UNCHANGED <<linesOfGetGlossary, rules, glossary, effectiveDate>>
    /\ OrderFrame

\* getRules: lines.splice(0, lines.findIndex(...) + 2)
RulesSplice ==
    /\ xpc["getRules"] = "splice"
    /\ LET startingLine == IndexOf(linesOfGetRules, Credits) + 2 IN
          linesOfGetRules' = Splice(linesOfGetRules, 0, startingLine)
    /\ xpc' = [xpc EXCEPT !["getRules"] = "parse"]
    /\ UNCHANGED <<linesOfGetGlossary, rules, glossary, effectiveDate>>
    /\ OrderFrame

\* getRules: return parseRules(lines)
RulesParse ==
    /\ xpc["getRules"] = "parse"
    /\ LET r == parseRules(linesOfGetRules) IN
          rules' = [called |-> TRUE, passed |-> linesOfGetRules,
                    threw |-> r.threw, value |-> r.rulesArr]
    /\ xpc' = [xpc EXCEPT !["getRules"] = "done"]
    /\ UNCHANGED <<linesOfGetRules, linesOfGetGlossary, glossary, effectiveDate>>
    /\ OrderFrame

\* getGlossary: const lines = rulesText.split("\r")
GlossarySplit ==
    /\ xpc["getGlossary"] = "split"
    /\ linesOfGetGlossary' = GetGlossarySplit
    /\ xpc' = [xpc EXCEPT !["getGlossary"] = "spliceStart"]
    /\ UNCHANGED <<linesOfGetRules, rules, glossary, effectiveDate>>
    /\ OrderFrame

\* getGlossary: lines.splice(0, startingLine)
GlossarySpliceStart ==
    /\ xpc["getGlossary"] = "spliceStart"
    /\ linesOfGetGlossary' =
           Splice(linesOfGetGlossary, 0, GlossaryStart(linesOfGetGlossary))
    /\ xpc' = [xpc EXCEPT !["getGlossary"] = "spliceEnd"]
    /\ UNCHANGED <<linesOfGetRules, rules, glossary, effectiveDate>>
    /\ OrderFrame

\* getGlossary: lines.splice(endingLine, lines.length - endingLine)
GlossarySpliceEnd ==
    /\ xpc["getGlossary"] = "spliceEnd"
    /\ LET endingLine == IndexOf(linesOfGetGlossary, NCredits) IN
          linesOfGetGlossary' =
              Splice(linesOfGetGlossary, endingLine,
                     Len(linesOfGetGlossary) - endingLine)
    /\ xpc' = [xpc EXCEPT !["getGlossary"] = "parse"]
    /\ UNCHANGED <<linesOfGetRules, rules, glossary, effectiveDate>>
    /\ OrderFrame

\* getGlossary: return parseGlossary(lines)
GlossaryParse ==
    /\ xpc["getGlossary"] = "parse"
    /\ LET g == parseGlossary(linesOfGetGlossary) IN
          glossary' = [called |-> TRUE, passed |-> linesOfGetGlossary,
                       threw |-> g.threw, value |-> g.termsArr]
    /\ xpc' = [xpc EXCEPT !["getGlossary"] = "done"]
    /\ UNCHANGED <<linesOfGetRules, linesOfGetGlossary, rules, effectiveDate>>
    /\ OrderFrame

\* getEffectiveDate(rulesText): it keeps no array, rulesText.split("\r")[2]
\* is read at once
DateExtract ==
    /\ xpc["getEffectiveDate"] = "split"
    /\ effectiveDate' = getEffectiveDate(rulesText.text)
    /\ xpc' = [xpc EXCEPT !["getEffectiveDate"] = "done"]
    /\ UNCHANGED <<linesOfGetRules, linesOfGetGlossary, rules, glossary>>
    /\ OrderFrame

NextOrder ==
    \/ RulesSplit
    \/ RulesSplice
    \/ RulesParse
    \/ GlossarySplit
    \/ GlossarySpliceStart
    \/ GlossarySpliceEnd
    \/ GlossaryParse
    \/ DateExtract

SpecOrder == InitOrder /\ [][NextOrder]_vars

\* what the extractions give in the order rules, glossary, date, each run
\* from its first statement to its last with nothing in between
RulesInOrder(text) ==
    LET arg == RulesLines(text)
        r == parseRules(arg)
    IN  [called |-> TRUE, passed |-> arg, threw |-> r.threw, value |-> r.rulesArr]

GlossaryInOrder(text) ==
    LET arg == GlossaryLines(text)
        g == parseGlossary(arg)
    IN  [called |-> TRUE, passed |-> arg, threw |-> g.threw, value |-> g.termsArr]

DateInOrder(text) == getEffectiveDate(text)

\* the extraction x took the step
Stepped(x) == xpc'[x] # xpc[x]

(***************************************************************************)
(* C15: the rules, glossary and effective-date extractions are             *)
(* independent.  No step of one changes the raw text or the line array     *)
(* that another reads, so in every order and interleaving each of the      *)
(* three results is the one of the order rules, glossary, date.            *)
(***************************************************************************)
C15_Step ==
    /\ rulesText' = rulesText
    /\ ~Stepped("getRules") => linesOfGetRules' = linesOfGetRules /\ rules' = rules
    /\ ~Stepped("getGlossary") =>
          linesOfGetGlossary' = linesOfGetGlossary /\ glossary' = glossary
    /\ ~Stepped("getEffectiveDate") => effectiveDate' = effectiveDate
    /\ xpc'["getRules"] = "done" => rules' = RulesInOrder(rulesText.text)
    /\ xpc'["getGlossary"] = "done" => glossary' = GlossaryInOrder(rulesText.text)
    /\ xpc'["getEffectiveDate"] = "done" =>
          effectiveDate' = DateInOrder(rulesText.text)

\* C15: every step of every interleaving keeps to the above
C15_ExtractionsIndependent == [][C15_Step]_vars

\* the glossary (two terms) and the date were extracted after getRules had
\* spliced its array and before it parsed it
C15_Witness ==
    /\ xpc["getRules"] = "parse"
    /\ xpc["getGlossary"] = "done"
    /\ xpc["getEffectiveDate"] = "done"
    /\ linesOfGetRules # Split(rulesText.text)
    /\ Len(glossary.value) = 2
    /\ ~glossary.threw
    /\ effectiveDate.kind = "number"

====
